---------------------------- MODULE Spec2Model ----------------------------
(***************************************************************************)
(* A state-machine model of the Bayesian HMM Gibbs sampler of scikit-time  *)
(* (sktime/markovprocess/bhmm/estimators/bayesian_sampling.py).            *)
(*                                                                         *)
(* Abstractions used throughout:                                           *)
(*  - a transition matrix / count matrix is its support: the set of pairs  *)
(*    <<i, j>> whose entry is positive;                                    *)
(*  - a vector (initial distribution, first-step counts) is its support:   *)
(*    the set of states whose entry is positive;                           *)
(*  - an observation sequence is its length (emission likelihoods of the   *)
(*    default Gaussian output model are positive for every state);         *)
(*  - emission parameters are recorded by what they were sampled from;     *)
(*  - Python objects live on a heap addressed by references, so aliasing   *)
(*    and in-place mutation are visible.                                   *)
(***************************************************************************)
EXTENDS Integers, Sequences, FiniteSets, TLC

\* ------------------------------------------------------------------------
\* Bounds of the model
\* ------------------------------------------------------------------------
NStates == 2

MaxSamples == 2

MaxBurn == 1

MaxThin == 2

MaxFits == 2

MaxLen == 2

\* sample() calls on one TransitionMatrixSampler
MaxCalls == 2

\* largest n_steps passed to TransitionMatrixSampler
MaxSteps == 2

\* trajectories passed to timeshifted_split
MaxTraj == 2

\* frames of a trajectory
MaxT == 3

MaxLag == 2

MaxChunk == 2

MaxStride == 2

MaxSplits == 2

\* ------------------------------------------------------------------------
\* Values
\* ------------------------------------------------------------------------
States == 0 .. (NStates - 1)

Pairs == States \X States

NoRef == 0

NoneVal == [kind |-> "None", supp |-> {}]

Unset == [kind |-> "unset", supp |-> {}]

Zeros == [kind |-> "zeros", supp |-> {}]

OnesVec == [kind |-> "ones", supp |-> States]

OnesMat == [kind |-> "ones", supp |-> Pairs]

ArrayVal(s) == [kind |-> "array", supp |-> s]

FromModel(s) == [kind |-> "initial_model", supp |-> s]

FullT == Pairs

DiagT == {<<i, i>> : i \in States}

ChainT == {p \in Pairs : p[1] <= p[2]}

NoHid == [set |-> FALSE, paths |-> << >>]

SomeHid(ps) == [set |-> TRUE, paths |-> ps]

\* An HMM object: transition matrix, initial distribution, output model and
\* the two hidden-trajectory attributes the sampler assigns.
HMM(T, p0, em) ==
    [transition_matrix |-> T, initial_distribution |-> p0, output_model |-> em,
     hidden_state_trajectories |-> NoHid, hidden_state_trajectory |-> NoHid]

UserEm == [src |-> "user", by |-> << >>]

MLEm(obs) == [src |-> "ml", by |-> obs]

GibbsEm(paths) == [src |-> "gibbs", by |-> paths]

\* ------------------------------------------------------------------------
\* msmest.is_connected(C, directed=True): one strongly connected component
\* ------------------------------------------------------------------------
Step(R, C) == R \cup {p \in Pairs : \E k \in States : <<p[1], k>> \in R /\ <<k, p[2]>> \in C}

RECURSIVE ReachN(_, _, _)
ReachN(R, C, n) == IF n = 0 THEN R ELSE ReachN(Step(R, C), C, n - 1)

Reach(C) == ReachN({<<i, i>> : i \in States}, C, NStates)

is_connected(C) == Reach(C) = Pairs


\* ------------------------------------------------------------------------
\* Counts of hidden paths, and the samplers' supports
\* ------------------------------------------------------------------------
PathPairs(s) == {<<s[t], s[t + 1]>> : t \in 1 .. (Len(s) - 1)}

\* HMM.count_matrix(): transitions of the current hidden trajectories
count_matrix(paths) == UNION {PathPairs(paths[n]) : n \in DOMAIN paths}

\* HMM.count_init(): first states of the current hidden trajectories
count_init(paths) == {paths[n][1] : n \in {m \in DOMAIN paths : Len(paths[m]) > 0}}

RowEmpty(C, i) == \A j \in States : <<i, j>> \notin C

\* msmest.sample_tmatrix(C, reversible): the reversible sampler moves only
\* the weights of pairs with C_ij + C_ji > 0, the non-reversible one draws
\* each row from a Dirichlet over its positive counts.
sample_tmatrix(C, reversible) ==
    IF reversible THEN {p \in Pairs : p \in C \/ <<p[2], p[1]>> \in C} ELSE C

\* the stationary distribution of Tij lives on its closed communicating classes
stationary_distribution(Tij) ==
    {i \in States : /\ ~RowEmpty(Tij, i)
                    /\ \A j \in States : <<i, j>> \in Reach(Tij) => <<j, i>> \in Reach(Tij)}

\* hidden.forward + hidden.sample_path: the paths of length L with positive
\* posterior probability under (A, pi) when every output likelihood is positive
FeasiblePaths(A, pi, L) ==
    {s \in [1 .. L -> States] : /\ L > 0 => s[1] \in pi
                                /\ \A t \in 1 .. (L - 1) : <<s[t], s[t + 1]>> \in A}

\* all ways to draw one path per observation sequence
RECURSIVE PathChoices(_, _, _)
PathChoices(A, pi, obs) ==
    IF obs = << >> THEN {<< >>}
    ELSE {<<s>> \o rest : s \in FeasiblePaths(A, pi, Head(obs)),
                          rest \in PathChoices(A, pi, Tail(obs))}

\* ------------------------------------------------------------------------
\* Heap of HMM objects
\* ------------------------------------------------------------------------
NewRef(h) == CHOOSE r \in 1 .. (Cardinality(DOMAIN h) + 1) : r \notin DOMAIN h

Alloc(h, v) == [r \in DOMAIN h \cup {NewRef(h)} |-> IF r \in DOMAIN h THEN h[r] ELSE v]

\* Model.copy(): a deep copy, a new object holding the same values
CopyOf(h, r) == Alloc(h, h[r])

Range(f) == {f[x] : x \in DOMAIN f}

Collect(h, live) == [r \in DOMAIN h \cap live |-> h[r]]

EmptyHeap == [r \in {} |-> HMM({}, {}, UserEm)]

\* ------------------------------------------------------------------------
\* Arguments
\* ------------------------------------------------------------------------
PNone == [type |-> "None", str |-> "", shape |-> << >>, supp |-> {}]

PStr(s) == [type |-> "str", str |-> s, shape |-> << >>, supp |-> {}]

PArr(shape, s) == [type |-> "ndarray", str |-> "", shape |-> shape, supp |-> s]

NoModel == [given |-> FALSE, m |-> HMM({}, {}, UserEm)]

Given(m) == [given |-> TRUE, m |-> m]

IsStr(p, s) == p.type = "str" /\ p.str = s

\* ------------------------------------------------------------------------
\* BayesianHMMSampler.__init__
\* ------------------------------------------------------------------------
\* lines 159-175: prior initial vector
CtorPriorN0AnyShape(a) ==
    LET p == a.p0_prior IN
    IF p.type = "None" \/ IsStr(p, "sparse") THEN [raise |-> "", val |-> Zeros]
    ELSE IF p.type = "ndarray" THEN [raise |-> "", val |-> ArrayVal(p.supp)]
    ELSE IF IsStr(p, "mixed")
        THEN IF a.initial_model.given
                THEN [raise |-> "", val |-> FromModel(a.initial_model.m.initial_distribution)]
                ELSE [raise |-> "", val |-> NoneVal]
    ELSE IF IsStr(p, "uniform") THEN [raise |-> "", val |-> OnesVec]
    ELSE [raise |-> "ValueError", val |-> Unset]

CtorPriorN0(a) ==
    LET p == a.p0_prior IN
    IF p.type = "None" \/ IsStr(p, "sparse") THEN [raise |-> "", val |-> Zeros]
    ELSE IF p.type = "ndarray"
        THEN IF Len(p.shape) = 1 /\ p.shape[1] = NStates
                THEN [raise |-> "", val |-> ArrayVal(p.supp)]
                ELSE [raise |-> "ValueError", val |-> Unset]
    ELSE IF IsStr(p, "mixed")
        THEN IF a.initial_model.given
                THEN [raise |-> "", val |-> FromModel(a.initial_model.m.initial_distribution)]
                ELSE [raise |-> "", val |-> NoneVal]
    ELSE IF IsStr(p, "uniform") THEN [raise |-> "", val |-> OnesVec]
    ELSE [raise |-> "ValueError", val |-> Unset]

\* lines 177-191: prior count matrix
CtorPriorC(a) ==
    LET p == a.transition_matrix_prior IN
    IF p.type = "None" \/ IsStr(a.p0_prior, "sparse") THEN [raise |-> "", val |-> Zeros]
    ELSE IF p.type = "ndarray"
        THEN IF p.shape = <<NStates, NStates>>
                THEN [raise |-> "", val |-> ArrayVal(p.supp)]
                ELSE [raise |-> "", val |-> Unset]
    ELSE IF IsStr(p, "mixed")
        THEN IF a.initial_model.given
                THEN [raise |-> "", val |-> FromModel(a.initial_model.m.transition_matrix)]
                ELSE [raise |-> "", val |-> NoneVal]
    ELSE IF IsStr(a.p0_prior, "uniform") THEN [raise |-> "", val |-> OnesMat]
    ELSE [raise |-> "ValueError", val |-> Unset]

\* lines 193-198: the options check
CtorCheck(a, priorC) ==
    IF a.reversible /\ a.initial_model.given
        THEN IF priorC.kind = "unset" THEN "AttributeError"
             ELSE IF ~is_connected(a.initial_model.m.transition_matrix \cup priorC.supp)
                 THEN "NotImplementedError"
             ELSE ""
        ELSE ""

\* the error __init__ raises for arguments a ("" when it returns)
CtorError(a) ==
    IF CtorPriorN0(a).raise # "" THEN CtorPriorN0(a).raise
    ELSE IF CtorPriorC(a).raise # "" THEN CtorPriorC(a).raise
    ELSE CtorCheck(a, CtorPriorC(a).val)

\* BayesianHMMPosterior(): prior and samples both None
NoSamples == [set |-> FALSE, refs |-> << >>]

EmptyPosterior == [prior |-> NoRef, samples |-> NoSamples]

\* the sampler object __init__ leaves behind; its initial model is the copy
\* of line 155 at heap address 1
NewSampler(a) ==
    [reversible |-> a.reversible, stationary |-> a.stationary,
     initial_model |-> IF a.initial_model.given THEN 1 ELSE NoRef,
     prior_n0 |-> CtorPriorN0(a).val, prior_C |-> CtorPriorC(a).val,
     nsamples |-> a.nsamples, alpha |-> 0, pobs |-> 0,
     model |-> EmptyPosterior]

NoSampler ==
    [reversible |-> FALSE, stationary |-> FALSE, initial_model |-> NoRef,
     prior_n0 |-> Unset, prior_C |-> Unset, nsamples |-> 0, alpha |-> 0, pobs |-> 0,
     model |-> EmptyPosterior]


\* ------------------------------------------------------------------------
\* TransitionMatrixSampler.__init__
\* ------------------------------------------------------------------------
\* numbers of inner steps, by value: None, a whole number, or an irrational
\* square root
TNone == [kind |-> "None", v |-> 0]

TInt(k) == [kind |-> "int", v |-> k]

\* math.sqrt(n): a whole number for a perfect square, else the root of n
Sqrt(n) ==
    IF \E k \in 0 .. n : k * k = n
        THEN TInt(CHOOSE k \in 0 .. n : k * k = n)
        ELSE [kind |-> "sqrt", v |-> n]

\* n_steps left out of the call
TOmitted == [kind |-> "omitted", v |-> 0]

\* the value of n_steps in the signature
SignatureSteps == 1

\* line 60: n_steps = 6
RevPiSteps == 6

\* line 63: n_steps = 1
NonRevSteps == 1

\* line 42: an argument left out takes the value of the signature
Passed(n_steps) == IF n_steps = TOmitted THEN TInt(SignatureSteps) ELSE n_steps

\* the inner sampler objects: their class and the count matrix they are given
NoInner == [class |-> "none", counts |-> "none", mu |-> FALSE]

Inner(class, counts, mu) == [class |-> class, counts |-> counts, mu |-> mu]

\* lines 55-56, 59-60: n_steps None is replaced by the mode's default
RevSteps(n_steps, n) == IF n_steps = TNone THEN Sqrt(n) ELSE n_steps

RevPiStepsOr(n_steps) == IF n_steps = TNone THEN TInt(RevPiSteps) ELSE n_steps

\* line 63: whatever was passed, the non-reversible sampler takes one step
KeptSteps(n_steps) == n_steps

ForcedSteps(n_steps) == TInt(NonRevSteps)

\* lines 44-68: the exception __init__ raises ("" when it returns), the inner
\* sampler it builds and the n_steps it remembers, for a count matrix of
\* shape (a.n, a.n)
TmsInit(a) ==
    IF a.prior # "sparse"
        THEN [raise |-> "ValueError", sampler |-> NoInner, n_steps |-> TNone]
    ELSE IF a.reversible
        THEN IF ~a.mu
                THEN [raise |-> "", sampler |-> Inner("SamplerRev", "count_matrix", FALSE),
                      n_steps |-> RevSteps(Passed(a.n_steps), a.n)]
                ELSE [raise |-> "", sampler |-> Inner("SamplerRevPi", "count_matrix", TRUE),
                      n_steps |-> RevPiStepsOr(Passed(a.n_steps))]
    ELSE IF ~a.mu
        THEN [raise |-> "", sampler |-> Inner("SamplerNonRev", "count_matrix - 1.0", FALSE),
              n_steps |-> ForcedSteps(Passed(a.n_steps))]
    ELSE [raise |-> "ValueError", sampler |-> NoInner, n_steps |-> TNone]

NoTArgs == [n |-> 0, reversible |-> FALSE, mu |-> FALSE, n_steps |-> TNone, prior |-> "sparse"]

NoTms == [state |-> "start", args |-> NoTArgs, sampler |-> NoInner, n_steps |-> TNone]

\* no sample() call: nothing drawn, nothing called, nothing returned
NoTfr ==
    [pc |-> "idle", nsamples |-> 0, return_statdist |-> FALSE, call_back |-> "None",
     i |-> 0, events |-> << >>, ncalls |-> 0, ret |-> "none"]

\* ------------------------------------------------------------------------
\* timeshifted_split (sktime/data/util.py): arrays, slices and arguments
\* ------------------------------------------------------------------------
\* An array is the sequence of its items along the first axis. Frame t of
\* the n-th input trajectory is <<n, t>>; a row <<n, -1>> is the whole n-th
\* trajectory, as in the two-dimensional array numpy makes of a list of
\* equally long trajectories.
Trajectory(n, T) == [t \in 1 .. T |-> <<n, t - 1>>]

Rows(k) == [n \in 1 .. k |-> <<n, -1>>]

\* n_splits: None, or a number
NoSplits == [given |-> FALSE, v |-> 0]

NSplits(k) == [given |-> TRUE, v |-> k]

Min(a, b) == IF a < b THEN a ELSE b

\* s[a:b] for 0 <= a, 0 <= b
PySlice(s, a, b) == SubSeq(s, a + 1, Min(b, Len(s)))

\* s[::k] for k >= 1
Strided(s, k) == [i \in 1 .. ((Len(s) + k - 1) \div k) |-> s[(i - 1) * k + 1]]

\* np.arange(n)
Arange(n) == [i \in 1 .. n |-> i - 1]

\* the orders random_state.shuffle may leave ix in
Shuffled(ix) ==
    {p \in [DOMAIN ix -> Range(ix)] : \A i, j \in DOMAIN ix : p[i] = p[j] => i = j}

\* data[ixs]: the items at the positions ixs
Take(data, ixs) == [i \in DOMAIN ixs |-> data[ixs[i] + 1]]

\* np.array_split(ix, n): n pieces, the first len % n of them one longer
array_split(ix, n) ==
    [k \in 1 .. n |->
        LET each == Len(ix) \div n
            extras == Len(ix) % n
            start == (k - 1) * each + Min(k - 1, extras)
            size == each + (IF k <= extras THEN 1 ELSE 0)
        IN SubSeq(ix, start + 1, start + size)]

\* lines 79-82: a list stays; anything else is wrapped into a list of one,
\* a tuple after it was made a list of its trajectories
Wrapped(inp) ==
    IF inp.kind = "list"
        THEN [n \in DOMAIN inp.lens |->
                [items |-> Trajectory(n, inp.lens[n]), finite |-> n \notin inp.nan]]
    ELSE IF inp.kind = "tuple"
        THEN << [items |-> Rows(Len(inp.lens)), finite |-> inp.nan = {}] >>
    ELSE << [items |-> Trajectory(1, inp.lens[1]), finite |-> 1 \notin inp.nan] >>

\* lines 71-87: the argument checks (chunksize is a whole number here, so
\* int(chunksize) is chunksize)
ArgCheck(a) ==
    IF a.lagtime < 0 THEN "ValueError"
    ELSE IF a.chunksize < 0 THEN "ValueError"
    ELSE IF \E n \in DOMAIN Wrapped(a.inputs) : ~(Len(Wrapped(a.inputs)[n].items) > a.lagtime)
        THEN "ValueError"
    ELSE ""

\* line 91: data_lagged
Lagged(items, lagtime, stride) == Strided(SubSeq(items, lagtime + 1, Len(items)), stride)

\* lines 92-95: data
Unlagged(items, lagtime, stride) ==
    Strided(IF lagtime > 0 THEN SubSeq(items, 1, Len(items) - lagtime) ELSE items, stride)

\* lines 104-109, 117-122: what is yielded, a pair only for a positive lagtime
Block(x, x_lagged, lagtime) ==
    IF lagtime > 0 THEN [pair |-> TRUE, x |-> x, y |-> x_lagged]
                   ELSE [pair |-> FALSE, x |-> x, y |-> << >>]

NoInputs == [kind |-> "list", lens |-> << >>, nan |-> {}]

NoGArgs ==
    [inputs |-> NoInputs, lagtime |-> 0, chunksize |-> 0, stride |-> 1,
     n_splits |-> NoSplits, shuffle |-> FALSE]

\* the generator before its first next(); tick flips with every block it
\* hands to the consumer
NoGen ==
    [pc |-> "start", args |-> NoGArgs, inputs |-> << >>, n |-> 0,
     data |-> << >>, data_lagged |-> << >>, ix |-> << >>, t |-> 0, splits |-> << >>,
     out |-> << >>, tick |-> FALSE, error |-> ""]

\* ------------------------------------------------------------------------
\* State
\* ------------------------------------------------------------------------
VARIABLES
    pc,        \* position of the caller / of fit
    self,      \* the attributes of the BayesianHMMSampler object
    heap,      \* the HMM objects, by reference
    fr,        \* the local variables of the running fit call
    outcome,   \* how the last call ended
    args,      \* the arguments __init__ was called with
    hist,      \* history: fit calls made; sweeps, callbacks and snapshots of the call
    pre,       \* history: the call's observations, sampler and heap when it began
    tms,       \* the TransitionMatrixSampler object and how its __init__ ended
    tfr,       \* the running sample() call, and the draws and callbacks it made
    gen        \* the timeshifted_split generator, and the blocks it yielded

vars == <<pc, self, heap, fr, outcome, args, hist, pre, tms, tfr, gen>>

\* the variables of the BayesianHMMSampler, and those of the TransitionMatrixSampler
bvars == <<pc, self, heap, fr, outcome, args, hist, pre>>

tvars == <<tms, tfr>>

\* those of the timeshifted_split generator
gvars == <<gen>>

NoFrame ==
    [observations |-> << >>, nburn |-> 0, nthin |-> 0, save |-> FALSE, call_back |-> "None",
     prior |-> NoRef, sample_model |-> NoRef, models |-> << >>,
     i |-> 0, k |-> 0, j |-> 0, ret |-> ""]

NoArgs ==
    [reversible |-> FALSE, stationary |-> FALSE, initial_model |-> NoModel,
     p0_prior |-> PNone, transition_matrix_prior |-> PNone, nsamples |-> 0]

NoOutcome == [call |-> "none", status |-> "none", error |-> ""]

NoPre == [called |-> FALSE, observations |-> << >>, self |-> NoSampler, heap |-> EmptyHeap]

\* history of a call: completed sweeps, callback calls, and for every
\* snapshot taken, in the order taken, its reference and the sweeps before it
NewCall(n, first) ==
    [nfits |-> n, first |-> first, sweeps |-> 0, callbacks |-> 0, snaps |-> << >>]

NoFirst == [seen |-> FALSE, observations |-> << >>]

Init ==
    /\ pc = "start"
    /\ self = NoSampler
    /\ heap = EmptyHeap
    /\ fr = NoFrame
    /\ outcome = NoOutcome
    /\ args = NoArgs
    /\ hist = NewCall(0, NoFirst)
    /\ pre = NoPre
    /\ tms = NoTms
    /\ tfr = NoTfr
    /\ gen = NoGen

\* the references the sampler object holds
SamplerRefs(s) == ({s.initial_model, s.model.prior} \cup Range(s.model.samples.refs)) \ {NoRef}

\* ------------------------------------------------------------------------
\* sampler = BayesianHMMSampler(nstates, ...)
\* ------------------------------------------------------------------------
Construct(a) ==
    /\ pc = "start"
    /\ UNCHANGED <<tvars, gvars>>
    /\ args' = a
    /\ UNCHANGED <<fr, hist, pre>>
    /\ IF CtorError(a) = ""
        THEN /\ pc' = "idle"
             /\ self' = NewSampler(a)
             /\ heap' = IF a.initial_model.given THEN Alloc(EmptyHeap, a.initial_model.m)
                                                  ELSE EmptyHeap
             /\ outcome' = [call |-> "init", status |-> "returned", error |-> ""]
        ELSE /\ pc' = "no_object"
             /\ UNCHANGED <<self, heap>>
             /\ outcome' = [call |-> "init", status |-> "raised", error |-> CtorError(a)]

\* ------------------------------------------------------------------------
\* sampler.fit(observations, nburn, nthin, save_hidden_state_trajectory, call_back)
\* ------------------------------------------------------------------------
SeqMax(q) == CHOOSE m \in Range(q) : \A x \in Range(q) : x <= m

\* an exception that leaves the snapshots collected so far in the posterior
RaiseKeepingModels(err, s, h) ==
    LET s1 == [s EXCEPT !.model.samples = [set |-> TRUE, refs |-> fr.models]]
    IN /\ pc' = "idle"
       /\ self' = s1
       /\ heap' = Collect(h, SamplerRefs(s1))
       /\ fr' = NoFrame
       /\ outcome' = [call |-> "fit", status |-> "raised", error |-> err]

\* an exception leaves fit: its locals are dropped, the sampler stays as it is
Raise(err, s, h) ==
    /\ pc' = "idle"
    /\ self' = s
    /\ heap' = Collect(h, SamplerRefs(s))
    /\ fr' = NoFrame
    /\ outcome' = [call |-> "fit", status |-> "raised", error |-> err]

\* the transition matrices the maximum-likelihood estimate may have
MLSupports == {FullT, DiagT}

\* _generateInitialModel(observations, output): the model MaximumLikelihoodHMM fits
GeneratedModels(obs) == {HMM(T, States, MLEm(obs)) : T \in MLSupports}

\* line 248: the sanity check
NoObservations(obs) == Len(obs) = 0

\* line 249: the check comes first, the sampler is as the caller left it
SanityRaiseLate(s, h) == Raise("ValueError", [s EXCEPT !.alpha = 1, !.pobs = 1], h)

SanityRaise(s, h) == Raise("ValueError", s, h)

\* scratch buffers with as many rows as the first sequence is long
BuffersOfFirst(s, obs) == [s EXCEPT !.alpha = Head(obs), !.pobs = Head(obs)]

\* lines 251-255: the scratch buffers, maxT rows each
WithBuffers(s, obs) == [s EXCEPT !.alpha = SeqMax(obs), !.pobs = SeqMax(obs)]

\* line 258: generate an initial model only when the sampler holds none
AlwaysGenerate(s) == TRUE

NeedsInitialModel(s) == s.initial_model = NoRef

\* lines 259-263: the sampler after the initial model m was generated
\* (prior_C is read after prior_n0 was filled in)
WithInitialModel(s, r, m) ==
    [s EXCEPT !.initial_model = r,
              !.prior_n0 = IF s.prior_n0.kind = "None" THEN FromModel(m.initial_distribution) ELSE @,
              !.prior_C = IF s.prior_C.kind = "None" THEN FromModel(m.transition_matrix) ELSE @]

\* lines 265-267: prior = initial_model.copy(); sample_model = prior.copy()
EnterLoop(s, h, obs, nburn, nthin, save, cb) ==
    LET h1 == CopyOf(h, s.initial_model)
        prior == NewRef(h)
        h2 == CopyOf(h1, prior)
        sm == NewRef(h1)
    IN /\ pc' = "burn"
       /\ self' = s
       /\ heap' = h2
       /\ fr' = [NoFrame EXCEPT !.observations = obs, !.nburn = nburn, !.nthin = nthin,
                                !.save = save, !.call_back = cb,
                                !.prior = prior, !.sample_model = sm]
       /\ outcome' = [call |-> "fit", status |-> "running", error |-> ""]

FitCall(obs, nburn, nthin, save, cb) ==
    /\ pc = "idle"
    /\ UNCHANGED <<tvars, gvars>>
    /\ hist.nfits < MaxFits
    /\ pre' = [called |-> TRUE, observations |-> obs, self |-> self, heap |-> heap]
    /\ UNCHANGED args
    /\ IF NoObservations(obs)
        THEN /\ SanityRaise(self, heap)
             /\ hist' = NewCall(hist.nfits + 1, hist.first)
        ELSE /\ hist' = NewCall(hist.nfits + 1,
                                IF hist.first.seen THEN hist.first
                                ELSE [seen |-> TRUE, observations |-> obs])
             /\ IF ~NeedsInitialModel(self)
                 THEN EnterLoop(WithBuffers(self, obs), heap, obs, nburn, nthin, save, cb)
                 ELSE \E m \in GeneratedModels(obs) :
                        LET h1 == Alloc(heap, m)
                            s2 == WithInitialModel(WithBuffers(self, obs), NewRef(heap), m)
                        IN IF self.prior_C.kind = "unset"
                              THEN Raise("AttributeError", s2, h1)
                              ELSE EnterLoop(s2, h1, obs, nburn, nthin, save, cb)

\* line 269: for _ in range(nburn)
MoreBurn(f) == f.i < f.nburn

BurnIter ==
    /\ pc = "burn"
    /\ UNCHANGED <<tvars, gvars>>
    /\ IF MoreBurn(fr)
        THEN /\ pc' = "hid"
             /\ fr' = [fr EXCEPT !.i = @ + 1, !.ret = "burn"]
        ELSE /\ pc' = "collect"
             /\ fr' = [fr EXCEPT !.models = << >>]
    /\ UNCHANGED <<self, heap, outcome, args, hist, pre>>

\* line 274: for _ in range(self.nsamples)
OneSampleMore(f, s) == f.k <= s.nsamples

MoreSamples(f, s) == f.k < s.nsamples

CollectIter ==
    /\ pc = "collect"
    /\ UNCHANGED <<tvars, gvars>>
    /\ IF MoreSamples(fr, self)
        THEN /\ pc' = "thin"
             /\ fr' = [fr EXCEPT !.k = @ + 1, !.j = 0]
        ELSE /\ pc' = "store"
             /\ fr' = fr
    /\ UNCHANGED <<self, heap, outcome, args, hist, pre>>

\* line 276: for _ in range(nthin)
OneThinLess(f) == f.j + 1 < f.nthin

MoreThin(f) == f.j < f.nthin

ThinIter ==
    /\ pc = "thin"
    /\ UNCHANGED <<tvars, gvars>>
    /\ IF MoreThin(fr)
        THEN /\ pc' = "hid"
             /\ fr' = [fr EXCEPT !.j = @ + 1, !.ret = "thin"]
        ELSE /\ pc' = "snap"
             /\ fr' = fr
    /\ UNCHANGED <<self, heap, outcome, args, hist, pre>>

\* ------------------------------------------------------------------------
\* _update(model, observations): one Gibbs sweep, in three steps
\* ------------------------------------------------------------------------
\* lines 297-299: the step that follows each step of a sweep
EmissionsLast(step) ==
    CASE step = "hid" -> "tm"
      [] step = "tm" -> "em"
      [] OTHER -> "done"

AfterStep(step) ==
    CASE step = "hid" -> "em"
      [] step = "em" -> "tm"
      [] OTHER -> "done"

\* a step of the sweep is over: on to the next step, or back into the loop
\* that ran the sweep
StepDone(step) ==
    IF AfterStep(step) = "done"
        THEN /\ pc' = fr.ret
             /\ hist' = [hist EXCEPT !.sweeps = @ + 1]
        ELSE /\ pc' = AfterStep(step)
             /\ hist' = hist

Working == heap[fr.sample_model]

\* lines 330-332: p_obs and forward write the first T rows of the scratch
\* buffers, which must have that many
BuffersHold(s, obs) == \A n \in DOMAIN obs : obs[n] <= s.alpha /\ obs[n] <= s.pobs

\* line 323: T = 0 for a sequence without observations
HasEmptySequence(obs) == \E n \in DOMAIN obs : obs[n] = 0

\* lines 301-336: a new hidden path for every observation sequence, drawn
\* under the transition matrix and initial distribution the model holds; for
\* T = 0 the path sampler either returns an empty path or fails on its last
\* index
UpdateHidden ==
    /\ pc = "hid"
    /\ UNCHANGED <<tvars, gvars>>
    /\ UNCHANGED <<args, pre>>
    /\ LET choices == PathChoices(Working.transition_matrix, Working.initial_distribution,
                                  fr.observations)
       IN IF choices = {} \/ ~BuffersHold(self, fr.observations)
             THEN /\ Raise("ValueError", self, heap)
                  /\ hist' = hist
             ELSE \/ /\ \E ps \in choices :
                           heap' = [heap EXCEPT ![fr.sample_model].hidden_state_trajectories =
                                                   SomeHid(ps)]
                     /\ StepDone("hid")
                     /\ UNCHANGED <<self, fr, outcome>>
                  \/ /\ HasEmptySequence(fr.observations)
                     /\ Raise("IndexError", self, heap)
                     /\ hist' = hist

\* lines 338-342: the output model is resampled in place from the observations
\* grouped by the hidden state the current paths assign them
UpdateEmission ==
    /\ pc = "em"
    /\ UNCHANGED <<tvars, gvars>>
    /\ heap' = [heap EXCEPT ![fr.sample_model].output_model =
                                GibbsEm(Working.hidden_state_trajectories.paths)]
    /\ StepDone("em")
    /\ UNCHANGED <<self, fr, outcome, args, pre>>

\* line 346: the posterior count matrix
PosteriorCounts(m, s) == count_matrix(m.hidden_state_trajectories.paths) \cup s.prior_C.supp

\* lines 348-354: what stops the update before a matrix is sampled: a missing
\* prior_C, a disconnected count matrix under reversible, or (in
\* msmest.transition_matrix) a row without counts under non-reversible
TransitionErrorUnchecked(m, s) ==
    IF s.prior_C.kind = "unset" THEN "AttributeError"
    ELSE IF ~s.reversible /\ \E i \in States : RowEmpty(PosteriorCounts(m, s), i)
        THEN "ValueError"
    ELSE ""

TransitionError(m, s) ==
    IF s.prior_C.kind = "unset" THEN "AttributeError"
    ELSE IF s.reversible /\ ~is_connected(PosteriorCounts(m, s)) THEN "NotImplementedError"
    ELSE IF ~s.reversible /\ \E i \in States : RowEmpty(PosteriorCounts(m, s), i)
        THEN "ValueError"
    ELSE ""

\* a sampler that gives every transition a positive probability
SampledDense(m, s) == Pairs

\* lines 358-359: the sampler is called with the configured reversible flag
SampledT(m, s) == sample_tmatrix(PosteriorCounts(m, s), s.reversible)

\* lines 361-369: the initial distribution
SampledP0Anywhere(m, s) ==
    IF s.stationary THEN stationary_distribution(SampledT(m, s))
    ELSE States

SampledP0(m, s) ==
    IF s.stationary THEN stationary_distribution(SampledT(m, s))
    ELSE count_init(m.hidden_state_trajectories.paths) \cup s.prior_n0.supp

\* a count matrix built in place (C = self.prior_C; C += counts): the
\* posterior counts, zeros forced, are left in the prior
CountsInPrior(s, m) == [s EXCEPT !.prior_C = [@ EXCEPT !.supp = PosteriorCounts(m, s)]]

\* lines 346-356: C is a new array, the sum of line 346; forcing entries of C
\* to zero (line 356) writes to no attribute of the sampler
AfterCounts(s, m) == s

UpdateTransition ==
    /\ pc = "tm"
    /\ UNCHANGED <<tvars, gvars>>
    /\ UNCHANGED <<args, pre>>
    /\ IF TransitionError(Working, self) # ""
        THEN /\ Raise(TransitionError(Working, self), self, heap)
             /\ hist' = hist
        ELSE /\ heap' = [heap EXCEPT
                            ![fr.sample_model].transition_matrix = SampledT(Working, self),
                            ![fr.sample_model].initial_distribution = SampledP0(Working, self)]
             /\ self' = AfterCounts(self, Working)
             /\ StepDone("tm")
             /\ UNCHANGED <<fr, outcome>>

\* ------------------------------------------------------------------------
\* Collecting
\* ------------------------------------------------------------------------
\* lines 279-282: model_copy, a copy of the working model
ModelCopy(m, save) == IF save THEN m ELSE [m EXCEPT !.hidden_state_trajectory = NoHid]

\* line 283: models.append(model_copy)
Appended(models, r) == Append(models, r)

\* a snapshot that stores the working model itself, not a copy of it
SnapshotAlias ==
    /\ pc = "snap"
    /\ UNCHANGED <<tvars, gvars>>
    /\ heap' = [heap EXCEPT ![fr.sample_model] = ModelCopy(@, fr.save)]
    /\ fr' = [fr EXCEPT !.models = Appended(@, fr.sample_model)]
    /\ hist' = [hist EXCEPT !.snaps = Append(@, [ref |-> fr.sample_model, sweeps |-> hist.sweeps])]
    /\ pc' = "cb"
    /\ UNCHANGED <<self, outcome, args, pre>>

\* lines 279-283: the heap and the list after models.append(model_copy)
Snapshot ==
    /\ pc = "snap"
    /\ UNCHANGED <<tvars, gvars>>
    /\ heap' = Alloc(heap, ModelCopy(Working, fr.save))
    /\ fr' = [fr EXCEPT !.models = Appended(@, NewRef(heap))]
    /\ hist' = [hist EXCEPT !.snaps = Append(@, [ref |-> NewRef(heap), sweeps |-> hist.sweeps])]
    /\ pc' = "cb"
    /\ UNCHANGED <<self, outcome, args, pre>>

\* a callback called after the last snapshot only
CallBackOnlyLast ==
    /\ pc = "cb"
    /\ UNCHANGED <<tvars, gvars>>
    /\ UNCHANGED <<args, pre>>
    /\ pc' = "collect"
    /\ hist' = [hist EXCEPT !.callbacks =
                    IF fr.call_back = "None" \/ fr.k < self.nsamples THEN @ ELSE @ + 1]
    /\ UNCHANGED <<self, heap, fr, outcome>>

\* lines 284-285: if call_back is not None: call_back()
CallBack ==
    /\ pc = "cb"
    /\ UNCHANGED <<tvars, gvars>>
    /\ UNCHANGED <<args, pre>>
    /\ IF fr.call_back = "raises"
        THEN /\ Raise("CallbackError", self, heap)
             /\ hist' = [hist EXCEPT !.callbacks = @ + 1]
        ELSE /\ pc' = "collect"
             /\ hist' = [hist EXCEPT !.callbacks = IF fr.call_back = "None" THEN @ ELSE @ + 1]
             /\ UNCHANGED <<self, heap, fr, outcome>>

\* line 287: self._model.samples = models
ExtendedSamples(old, models) == [set |-> TRUE, refs |-> old.refs \o models]

StoredSamples(old, models) == [set |-> TRUE, refs |-> models]

\* line 288: self._model.prior = prior
StoredPrior(old, f) == f.prior

\* lines 287-293: publish the posterior, free the buffers, return
Store ==
    /\ pc = "store"
    /\ UNCHANGED <<tvars, gvars>>
    /\ LET s == [self EXCEPT !.model = [prior |-> StoredPrior(@.prior, fr),
                                         samples |-> StoredSamples(@.samples, fr.models)],
                             !.alpha = 0, !.pobs = 0]
       IN /\ self' = s
          /\ heap' = Collect(heap, SamplerRefs(s))
    /\ pc' = "idle"
    /\ fr' = NoFrame
    /\ outcome' = [call |-> "fit", status |-> "returned", error |-> ""]
    /\ UNCHANGED <<args, hist, pre>>

\* ------------------------------------------------------------------------
\* Arguments explored
\* ------------------------------------------------------------------------
SuppliedModels == {Given(HMM(FullT, States, UserEm)), Given(HMM(DiagT, States, UserEm))}

Lengths == 1 .. MaxLen

ObsChoices == {<< >>} \cup {<<l>> : l \in Lengths}

CtorArgs ==
    [reversible : BOOLEAN, stationary : {FALSE},
     initial_model : {NoModel} \cup SuppliedModels,
     p0_prior : {PStr("mixed"), PNone},
     transition_matrix_prior : {PStr("mixed"), PArr(<<NStates, NStates>>, {<<0, 1>>})},
     nsamples : 0 .. MaxSamples]

Next ==
    \/ \E a \in CtorArgs : Construct(a)
    \/ \E obs \in ObsChoices, nburn \in 0 .. MaxBurn, nthin \in 0 .. MaxThin,
          cb \in {"None", "ok"} : FitCall(obs, nburn, nthin, FALSE, cb)
    \/ BurnIter
    \/ CollectIter
    \/ ThinIter
    \/ UpdateHidden
    \/ UpdateEmission
    \/ UpdateTransition
    \/ Snapshot
    \/ CallBack
    \/ Store

Spec == Init /\ [][Next]_vars


\* the constructor's arguments in full, each followed by fits of one burn-in sweep
P0Priors ==
    {PNone, PStr("sparse"), PStr("mixed"), PStr("uniform"), PStr("bogus"),
     PArr(<<NStates>>, States), PArr(<<NStates>>, {0}),
     PArr(<<NStates + 1>>, States), PArr(<<NStates, NStates>>, States)}

TmPriors ==
    {PNone, PStr("mixed"), PStr("uniform"), PStr("bogus"),
     PArr(<<NStates, NStates>>, FullT), PArr(<<NStates, NStates>>, {<<0, 1>>}),
     PArr(<<NStates>>, {}), PArr(<<NStates + 1, NStates + 1>>, FullT)}

CtorArgsAll ==
    [reversible : BOOLEAN, stationary : BOOLEAN,
     initial_model : {NoModel} \cup SuppliedModels,
     p0_prior : P0Priors,
     transition_matrix_prior : TmPriors,
     nsamples : {0}]

NextCtor ==
    \/ \E a \in CtorArgsAll : Construct(a)
    \/ FitCall(<<MaxLen>>, 1, 0, FALSE, "None")
    \/ BurnIter
    \/ CollectIter
    \/ UpdateHidden
    \/ UpdateEmission
    \/ UpdateTransition
    \/ Store

SpecCtor == Init /\ [][NextCtor]_vars

\* ------------------------------------------------------------------------
\* Properties
\* ------------------------------------------------------------------------
Returned == pc = "idle" /\ outcome.call = "fit" /\ outcome.status = "returned"

Running == outcome.call = "fit" /\ outcome.status = "running"

RaisedWith(err) ==
    pc = "idle" /\ outcome.call = "fit" /\ outcome.status = "raised" /\ outcome.error = err

SnapRefs == [k \in 1 .. Len(hist.snaps) |-> hist.snaps[k].ref]

Untouched(m) == m.output_model.src # "gibbs" /\ ~m.hidden_state_trajectories.set

\* C1: after a fit that returned, the posterior holds exactly nsamples
\* samples, in the order the snapshots were taken, and one prior that is a
\* separate object equal to the initial model, untouched by any sweep.
C1_PosteriorAfterFit ==
    Returned =>
        /\ self.model.samples.set
        /\ Len(self.model.samples.refs) = self.nsamples
        /\ self.model.samples.refs = SnapRefs
        /\ self.model.prior \in DOMAIN heap
        /\ self.model.prior \notin Range(self.model.samples.refs) \cup {self.initial_model}
        /\ heap[self.model.prior] = heap[self.initial_model]
        /\ Untouched(heap[self.model.prior])

C1_Witness ==
    /\ Returned
    /\ self.nsamples = 2
    /\ hist.sweeps > 0
    /\ heap[self.model.samples.refs[1]] # heap[self.model.samples.refs[2]]
    /\ heap[self.model.samples.refs[1]] # heap[self.model.prior]

\* the sweeps completed at the points of fit where no sweep is under way
SweepsDue ==
    IF fr.k = 0 THEN fr.i
    ELSE fr.nburn + (fr.k - 1) * fr.nthin + (IF pc \in {"cb", "collect"} THEN fr.nthin ELSE fr.j)

\* C2: a fit runs nburn sweeps without snapshot or callback, then nthin
\* sweeps before each snapshot: the k-th snapshot is the working model after
\* nburn + k * nthin sweeps, and nburn + nsamples * nthin sweeps ran in all.
C2_SweepSchedule ==
    Running =>
        /\ \A k \in 1 .. Len(hist.snaps) : hist.snaps[k].sweeps = fr.nburn + k * fr.nthin
        /\ Len(hist.snaps) = Len(fr.models)
        /\ (hist.sweeps < fr.nburn \/ fr.k = 0) => hist.snaps = << >> /\ hist.callbacks = 0
        /\ pc \in {"burn", "collect", "thin", "snap", "cb", "store"} => hist.sweeps = SweepsDue
        /\ pc = "cb" => heap[fr.models[Len(fr.models)]] = ModelCopy(Working, fr.save)
        /\ pc = "store" => /\ hist.sweeps = fr.nburn + self.nsamples * fr.nthin
                           /\ Len(hist.snaps) = self.nsamples

C2_Witness ==
    /\ Running
    /\ pc = "store"
    /\ fr.nburn = 1
    /\ fr.nthin = 2
    /\ self.nsamples = 2
    /\ hist.sweeps = 5

\* the paths the working model holds could be drawn under its matrices
PathsDrawnUnder(m) ==
    /\ m.hidden_state_trajectories.set
    /\ m.hidden_state_trajectories.paths
         \in PathChoices(m.transition_matrix, m.initial_distribution, fr.observations)

\* the working model as a finished sweep leaves it
SweepComplete(m) ==
    /\ m.hidden_state_trajectories.set
    /\ m.output_model = GibbsEm(m.hidden_state_trajectories.paths)
    /\ m.transition_matrix = SampledT(m, self)
    /\ m.initial_distribution = SampledP0(m, self)

\* C3: in a sweep the hidden paths are drawn first, under the matrices the
\* previous sweep left; then the emissions are resampled from those paths;
\* then the matrices from the counts of those paths; a sweep starts only
\* from the initial model or from a model a finished sweep left.
C3_SweepOrder ==
    Running =>
        /\ pc = "hid" => IF hist.sweeps = 0 THEN Working = heap[self.initial_model]
                                            ELSE SweepComplete(Working)
        /\ pc = "em" => /\ PathsDrawnUnder(Working)
                        /\ hist.sweeps = 0 => Working.output_model = heap[self.initial_model].output_model
        /\ pc = "tm" => /\ PathsDrawnUnder(Working)
                        /\ Working.output_model = GibbsEm(Working.hidden_state_trajectories.paths)
        /\ (pc \notin {"hid", "em", "tm"} /\ hist.sweeps > 0) => SweepComplete(Working)

C3_Witness ==
    /\ Running
    /\ pc = "tm"
    /\ hist.sweeps >= 1
    /\ Working.transition_matrix # SampledT(Working, self)


\* the working model is at step 3 of a sweep of a reversible sampler and the
\* counts of its hidden paths plus prior_C are not connected
Disconnected ==
    /\ Running
    /\ pc = "tm"
    /\ self.reversible
    /\ self.prior_C.kind # "unset"
    /\ ~is_connected(PosteriorCounts(Working, self))

DisconnectedRaises ==
    /\ pc' = "idle"
    /\ outcome' = [call |-> "fit", status |-> "raised", error |-> "NotImplementedError"]
    /\ \A r \in DOMAIN heap' : heap'[r] = heap[r]

\* C4 (as amended): a disconnected count matrix under reversible makes fit
\* raise in that sweep, no HMM object receives a sampled matrix, and the
\* posterior is left exactly as it was before the call.
C4_DisconnectedRaises ==
    [][Disconnected => /\ DisconnectedRaises
                       /\ self'.model = self.model
                       /\ self'.model = pre.self.model]_vars

\* C4 (as claimed): ... and the posterior afterwards contains no samples.
C4_NoSamplesAfterwards ==
    [][Disconnected => /\ DisconnectedRaises
                       /\ Len(self'.model.samples.refs) = 0]_vars

C4_Witness ==
    /\ RaisedWith("NotImplementedError")
    /\ self.reversible
    /\ Len(self.model.samples.refs) > 0

\* C5 (as claimed): under reversible a fit gets past its initialization only
\* with an initial model that is connected together with prior_C, and every
\* sampled matrix is sampled with the configured reversible flag.
C5_DisconnectedSurfacedAtInit ==
    /\ (Running /\ self.reversible) =>
            is_connected(heap[self.initial_model].transition_matrix \cup self.prior_C.supp)
    /\ (Running /\ pc \notin {"hid", "em", "tm"} /\ hist.sweeps > 0) =>
            Working.transition_matrix =
                sample_tmatrix(PosteriorCounts(Working, self), args.reversible)

\* the snapshots: the prior and the samples, collected or published
StoredRefs ==
    ({fr.prior, self.model.prior} \cup Range(fr.models) \cup Range(self.model.samples.refs))
        \ {NoRef}

NoAlias ==
    /\ Cardinality(Range(fr.models)) = Len(fr.models)
    /\ Cardinality(Range(self.model.samples.refs)) = Len(self.model.samples.refs)
    /\ fr.prior \notin Range(fr.models)
    /\ self.model.prior \notin Range(self.model.samples.refs)
    /\ Running => /\ fr.sample_model \notin StoredRefs \cup {self.initial_model}
                  /\ (Range(fr.models) \cup {fr.prior})
                        \cap (Range(self.model.samples.refs) \cup {self.model.prior}) = {}
    /\ self.initial_model \notin StoredRefs

Frozen == \A r \in StoredRefs \cap StoredRefs' : heap'[r] = heap[r]

\* C6: the prior and the samples are objects of their own, none of them the
\* working model, the initial model or one another, and no step changes a
\* snapshot that stays stored.
C6_SnapshotsIndependent == []NoAlias /\ [][Frozen]_vars

C6_Witness ==
    /\ Running
    /\ Len(fr.models) >= 1
    /\ hist.sweeps > hist.snaps[1].sweeps
    /\ heap[fr.models[1]].output_model # Working.output_model
    /\ heap[fr.prior].output_model # heap[fr.models[1]].output_model

\* C7: after a fit that returned, the posterior holds the snapshots of that
\* fit only: nsamples samples and a prior, all created during that call.
C7_RefitReplaces ==
    Returned =>
        /\ self.model.samples.refs = SnapRefs
        /\ Len(self.model.samples.refs) = self.nsamples
        /\ (Range(self.model.samples.refs) \cup {self.model.prior}) \cap DOMAIN pre.heap = {}
        /\ DOMAIN heap = SamplerRefs(self)

C7_Witness ==
    /\ Returned
    /\ hist.nfits = 2
    /\ Len(pre.self.model.samples.refs) = 2
    /\ Len(self.model.samples.refs) = 2

\* C8 (as claimed): the initial model a fit starts from is given by the
\* constructor's arguments and the observations of that call.
C8_RefitFullyReset ==
    Running =>
        IF args.initial_model.given
            THEN heap[self.initial_model] = args.initial_model.m
            ELSE heap[self.initial_model].output_model = MLEm(fr.observations)

MixedOr(ctor, v) == IF ctor.kind = "None" THEN FromModel(v) ELSE ctor

\* C8 (as amended): every fit starts from a fresh copy of the sampler's
\* initial model; a supplied initial model and its priors are those of the
\* constructor; a generated one is estimated from the observations of the
\* first fit that got past the sanity check, and it and the priors taken
\* from it are kept by every later fit.
C8_InitialModelKept ==
    pc \notin {"start", "no_object"} =>
        /\ IF args.initial_model.given
            THEN /\ heap[self.initial_model] = args.initial_model.m
                 /\ self.prior_n0 = CtorPriorN0(args).val
                 /\ self.prior_C = CtorPriorC(args).val
            ELSE IF hist.first.seen
                THEN /\ heap[self.initial_model].output_model = MLEm(hist.first.observations)
                     /\ self.prior_n0 = MixedOr(CtorPriorN0(args).val,
                                                heap[self.initial_model].initial_distribution)
                     /\ self.prior_C = MixedOr(CtorPriorC(args).val,
                                               heap[self.initial_model].transition_matrix)
                ELSE /\ self.initial_model = NoRef
                     /\ self.prior_n0 = CtorPriorN0(args).val
                     /\ self.prior_C = CtorPriorC(args).val
        /\ (Running /\ hist.sweeps = 0 /\ pc \in {"burn", "hid"}) =>
                /\ Working = heap[self.initial_model]
                /\ heap[fr.prior] = heap[self.initial_model]

C8_Witness ==
    /\ Running
    /\ hist.nfits = 2
    /\ ~args.initial_model.given
    /\ pre.self.model.samples.set
    /\ fr.observations # hist.first.observations

\* C9: a fit called with no observation sequence raises and leaves the
\* sampler and every HMM object as they were; no sweep and no callback ran.
C9_EmptyObservationsRejected ==
    (pre.called /\ pre.observations = << >>) =>
        /\ RaisedWith("ValueError")
        /\ self = pre.self
        /\ heap = pre.heap
        /\ fr = NoFrame
        /\ hist.sweeps = 0
        /\ hist.callbacks = 0

C9_Witness ==
    /\ pre.called
    /\ pre.observations = << >>
    /\ hist.nfits = 2
    /\ Len(self.model.samples.refs) > 0

BadP0Array(a) == a.p0_prior.type = "ndarray" /\ a.p0_prior.shape # <<NStates>>

\* C10: a p0_prior array whose shape is not (nstates,) makes the constructor
\* raise ValueError: no sampler object exists, so no fit and no sweep can run.
C10_BadP0ArrayRejected ==
    (pc # "start" /\ BadP0Array(args)) =>
        /\ pc = "no_object"
        /\ outcome = [call |-> "init", status |-> "raised", error |-> "ValueError"]
        /\ self = NoSampler
        /\ heap = EmptyHeap
        /\ hist.nfits = 0
        /\ hist.sweeps = 0

C10_Witness ==
    /\ pc = "no_object"
    /\ BadP0Array(args)
    /\ args.p0_prior.shape = <<NStates + 1>>

BadTmArray(a) ==
    /\ a.transition_matrix_prior.type = "ndarray"
    /\ a.transition_matrix_prior.shape # <<NStates, NStates>>

\* C11 (as claimed): a transition_matrix_prior array of the wrong shape is
\* rejected at construction or at fit entry; no step of a Gibbs sweep ever
\* runs on a sampler whose prior_C was never assigned.
C11_BadTmArrayRejected ==
    BadTmArray(args) => ~(pc \in {"hid", "em", "tm"} /\ self.prior_C = Unset)

\* __init__ returned and no fit was called yet
Constructed == pc = "idle" /\ outcome.call = "init"

\* C12 (as claimed): the prior count matrix follows from
\* transition_matrix_prior alone, whatever p0_prior is: None gives zeros,
\* "uniform" the all-ones matrix, "mixed" the initial model's transition
\* matrix, an array of shape (nstates, nstates) that array; any other string
\* is rejected, and "uniform" is not.
C12_PriorCByTmPriorAlone ==
    LET p == args.transition_matrix_prior IN
    /\ Constructed =>
        /\ p.type = "None" => self.prior_C = Zeros
        /\ IsStr(p, "uniform") => self.prior_C = OnesMat
        /\ IsStr(p, "mixed") =>
                self.prior_C = IF args.initial_model.given
                                  THEN FromModel(args.initial_model.m.transition_matrix)
                                  ELSE NoneVal
        /\ (p.type = "ndarray" /\ ~BadTmArray(args)) => self.prior_C = ArrayVal(p.supp)
        /\ p.type = "str" => p.str \in {"uniform", "mixed"}
    /\ (pc = "no_object" /\ IsStr(p, "uniform")) => CtorPriorN0(args).raise # ""

\* C13: a callback given to fit is called once per collected sample: the
\* k-th call follows the k-th snapshot and precedes every sweep of sample
\* k + 1, no call happens during burn-in, and nsamples calls were made when
\* the loop is left; without a callback nothing is called.
C13_CallbackPerSample ==
    Running =>
        IF fr.call_back = "None" THEN hist.callbacks = 0
        ELSE /\ hist.callbacks = IF pc = "cb" THEN Len(fr.models) - 1 ELSE Len(fr.models)
             /\ fr.k = 0 => hist.callbacks = 0
             /\ (pc \in {"hid", "em", "tm"} /\ fr.ret = "thin") => hist.callbacks = fr.k - 1
             /\ pc = "cb" => Len(fr.models) = fr.k
             /\ pc = "store" => hist.callbacks = self.nsamples

C13_Witness ==
    /\ Running
    /\ fr.call_back = "ok"
    /\ pc = "hid"
    /\ fr.nburn > 0
    /\ fr.k = 2
    /\ hist.callbacks = 1

\* ------------------------------------------------------------------------
\* Fits with every option: the flag save_hidden_state_trajectory, and
\* callbacks that return or raise
\* ------------------------------------------------------------------------
CtorArgsDefault ==
    [reversible : BOOLEAN, stationary : {FALSE},
     initial_model : {NoModel} \cup SuppliedModels,
     p0_prior : {PStr("mixed")},
     transition_matrix_prior : {PStr("mixed")},
     nsamples : 0 .. MaxSamples]

NextOptions ==
    \/ \E a \in CtorArgsDefault : Construct(a)
    \/ \E nburn \in 0 .. MaxBurn, nthin \in 0 .. MaxThin,
          save \in BOOLEAN, cb \in {"ok", "raises"} :
            FitCall(<<MaxLen>>, nburn, nthin, save, cb)
    \/ BurnIter
    \/ CollectIter
    \/ ThinIter
    \/ UpdateHidden
    \/ UpdateEmission
    \/ UpdateTransition
    \/ Snapshot
    \/ CallBack
    \/ Store

SpecOptions == Init /\ [][NextOptions]_vars

FitRaised == pc = "idle" /\ outcome.call = "fit" /\ outcome.status = "raised"

\* the objects of the posterior the sampler exposes
PosteriorRefs(s) == ({s.model.prior} \cup Range(s.model.samples.refs)) \ {NoRef}

\* C14: when fit raises (from a sweep or from the callback), the posterior's
\* prior and samples are the objects they were before the call, unchanged;
\* the list of samples collected so far is dropped with the call's locals
\* and no object of it stays reachable.
C14_FailureDiscardsProgress ==
    FitRaised =>
        /\ self.model = pre.self.model
        /\ \A r \in PosteriorRefs(self) : heap[r] = pre.heap[r]
        /\ fr = NoFrame
        /\ DOMAIN heap = SamplerRefs(self)

C14_Witness ==
    /\ FitRaised
    /\ outcome.error = "CallbackError"
    /\ hist.sweeps >= 1
    /\ Len(hist.snaps) = 1
    /\ Len(self.model.samples.refs) = 2

\* C15 (as claimed): once fit has returned or raised, the sampler holds
\* neither scratch buffer.
C15_BuffersReleased ==
    (pc = "idle" /\ outcome.call = "fit") => (self.alpha = 0 /\ self.pobs = 0)

\* C16 (as claimed): without save_hidden_state_trajectory no stored sample
\* carries hidden paths, while the working model keeps its own; with the
\* flag, every sample taken after a sweep carries the paths of that sweep.
C16_TrajectoriesDiscarded ==
    Running =>
        /\ \A k \in DOMAIN fr.models :
            LET m == heap[fr.models[k]] IN
            IF fr.save
                THEN hist.snaps[k].sweeps > 0 =>
                        /\ m.hidden_state_trajectories.set
                        /\ m.output_model = GibbsEm(m.hidden_state_trajectories.paths)
                ELSE ~m.hidden_state_trajectories.set
        /\ (pc \in {"cb", "collect"} /\ hist.sweeps > 0) =>
                Working.hidden_state_trajectories.set

\* ------------------------------------------------------------------------
\* TransitionMatrixSampler: construction and sample()
\* ------------------------------------------------------------------------
TmsConstruct(a) ==
    /\ tms.state = "start"
    /\ tms' = IF TmsInit(a).raise # ""
                 THEN [state |-> "no_object", args |-> a, sampler |-> NoInner, n_steps |-> TNone]
                 ELSE [state |-> "ready", args |-> a, sampler |-> TmsInit(a).sampler,
                       n_steps |-> TmsInit(a).n_steps]
    /\ UNCHANGED tfr
    /\ UNCHANGED <<bvars, gvars>>

\* one call of the inner sampler, self.sampler.sample(N=self.n_steps, return_statdist=...)
Draw(N, statdist) == [ev |-> "draw", N |-> N, statdist |-> statdist]

\* one call of call_back
Called == [ev |-> "call_back", N |-> TNone, statdist |-> FALSE]

\* line 71: if nsamples == 1
IsSingle(nsamples) == nsamples = 1

\* sampler.sample(nsamples, return_statdist, call_back)
SampleCall(nsamples, return_statdist, call_back) ==
    /\ tms.state = "ready"
    /\ tfr.pc = "idle"
    /\ tfr.ncalls < MaxCalls
    /\ tfr' = [NoTfr EXCEPT !.pc = IF IsSingle(nsamples) THEN "single" ELSE "loop",
                            !.nsamples = nsamples, !.return_statdist = return_statdist,
                            !.call_back = call_back, !.ncalls = tfr.ncalls + 1]
    /\ UNCHANGED tms
    /\ UNCHANGED <<bvars, gvars>>

\* line 72: one draw, returned as it is
SampleSingle ==
    /\ tfr.pc = "single"
    /\ tfr' = [tfr EXCEPT !.pc = "idle", !.ret = "sample",
                          !.events = Append(@, Draw(tms.n_steps, tfr.return_statdist))]
    /\ UNCHANGED tms
    /\ UNCHANGED <<bvars, gvars>>

\* lines 78-79, 84-85: for i in range(nsamples): draw; lines 82, 88: return
SampleLoop ==
    /\ tfr.pc = "loop"
    /\ tfr' = IF tfr.i < tfr.nsamples
                 THEN [tfr EXCEPT !.pc = "cb",
                                  !.events = Append(@, Draw(tms.n_steps, tfr.return_statdist))]
                 ELSE [tfr EXCEPT !.pc = "idle", !.ret = "samples"]
    /\ UNCHANGED tms
    /\ UNCHANGED <<bvars, gvars>>

\* lines 80-81, 86-87: if call_back is not None: call_back()
SampleCallBack ==
    /\ tfr.pc = "cb"
    /\ tfr' = [tfr EXCEPT !.pc = "loop", !.i = @ + 1,
                          !.events = IF tfr.call_back = "None" THEN @ ELSE Append(@, Called)]
    /\ UNCHANGED tms
    /\ UNCHANGED <<bvars, gvars>>

StepArgs == {TOmitted, TNone} \cup {TInt(k) : k \in 1 .. MaxSteps}

TmsArgs ==
    [n : 1 .. NStates, reversible : BOOLEAN, mu : BOOLEAN, n_steps : StepArgs,
     prior : {"sparse", "uniform"}]

NextTms ==
    \/ \E a \in TmsArgs : TmsConstruct(a)
    \/ \E nsamples \in 0 .. MaxSamples, return_statdist \in BOOLEAN, call_back \in {"None", "ok"} :
          SampleCall(nsamples, return_statdist, call_back)
    \/ SampleSingle
    \/ SampleLoop
    \/ SampleCallBack

SpecTms == Init /\ [][NextTms]_vars

\* the strategy the constructor selected for its arguments
StrategyByMode ==
    tms.state # "start" =>
        LET a == tms.args IN
        /\ (a.prior = "sparse" /\ a.reversible /\ ~a.mu) =>
                /\ tms.state = "ready"
                /\ tms.sampler = Inner("SamplerRev", "count_matrix", FALSE)
        /\ (a.prior = "sparse" /\ a.reversible /\ a.mu) =>
                /\ tms.state = "ready"
                /\ tms.sampler = Inner("SamplerRevPi", "count_matrix", TRUE)
        /\ (a.prior = "sparse" /\ ~a.reversible /\ ~a.mu) =>
                /\ tms.state = "ready"
                /\ tms.sampler = Inner("SamplerNonRev", "count_matrix - 1.0", FALSE)
                /\ tms.n_steps = TInt(1)
        /\ (~a.reversible /\ a.mu) => tms.state = "no_object"
        /\ tms.state = "no_object" => tms.sampler = NoInner

\* C17: the constructor selects the inner sampler by (reversible, mu) alone:
\* SamplerRev, SamplerRevPi, or SamplerNonRev on count_matrix - 1 with
\* n_steps 1 whatever was passed; non-reversible with mu gives no object;
\* and no step of a sample() call changes the sampler or n_steps.
C17_StrategyFixedAtConstruction ==
    []StrategyByMode /\ [][tms.state = "ready" => tms' = tms]_vars

C17_Witness ==
    /\ tms.state = "ready"
    /\ tms.sampler.class = "SamplerNonRev"
    /\ tms.args.n_steps = TInt(MaxSteps)
    /\ tfr.ncalls = 2
    /\ tfr.ret = "samples"
    /\ Len(tfr.events) > 0

\* C18 (as claimed): a reversible sampler constructed without a value for
\* n_steps (left out, or None) takes sqrt(n) inner steps per sample, and 6
\* when the stationary vector mu is given.
C18_DefaultSteps ==
    (tms.state = "ready" /\ tms.args.reversible /\ tms.args.n_steps \in {TOmitted, TNone}) =>
        tms.n_steps = IF tms.args.mu THEN TInt(RevPiSteps) ELSE Sqrt(tms.args.n)

\* C19 (as claimed): a sample() call with nsamples >= 1 and a callback has,
\* when it returns, made nsamples draws of the inner sampler with
\* N = n_steps, each followed by one call of the callback.
C19_CallbackPerDraw ==
    (tfr.pc = "idle" /\ tfr.ret # "none" /\ tfr.nsamples >= 1 /\ tfr.call_back # "None") =>
        /\ Len(tfr.events) = 2 * tfr.nsamples
        /\ \A i \in 1 .. tfr.nsamples :
              /\ tfr.events[2 * i - 1] = Draw(tms.n_steps, tfr.return_statdist)
              /\ tfr.events[2 * i] = Called

\* zero pseudo-counts for the initial distribution, which is sampled anew
ZeroP0Prior == self.prior_n0 = Zeros /\ ~self.stationary

\* C20: with zero pseudo-counts and stationary = False, the states the
\* initial distribution gives weight to never grow during a fit: every new
\* hidden path starts in a state the current initial distribution supports,
\* and the initial distribution a sweep samples supports exactly the first
\* states of that sweep's paths; a state not started in is lost for good.
C20_LostStartStateStaysLost ==
    [][(Running /\ Running' /\ ZeroP0Prior) =>
          /\ Working'.initial_distribution \subseteq Working.initial_distribution
          /\ pc = "hid" => count_init(Working'.hidden_state_trajectories.paths)
                              \subseteq Working.initial_distribution
          /\ pc = "tm" => Working'.initial_distribution
                              = count_init(Working.hidden_state_trajectories.paths)]_vars

C20_Witness ==
    /\ Running
    /\ ZeroP0Prior
    /\ pc = "em"
    /\ hist.sweeps >= 2
    /\ heap[self.initial_model].initial_distribution = States
    /\ Working.initial_distribution = {0}
    /\ count_init(Working.hidden_state_trajectories.paths) = {0}

\* ------------------------------------------------------------------------
\* Fits on lists of observation sequences
\* ------------------------------------------------------------------------
\* lists of up to two sequences, each with 0 .. MaxLen observations
SeqLists == {<< >>} \cup {<<l>> : l \in 0 .. MaxLen} \cup ((0 .. MaxLen) \X (0 .. MaxLen))

CtorArgsSeqs ==
    [reversible : BOOLEAN, stationary : {FALSE},
     initial_model : SuppliedModels,
     p0_prior : {PStr("mixed")},
     transition_matrix_prior : {PNone, PStr("mixed")},
     nsamples : 0 .. 1]

NextSeqs ==
    \/ \E a \in CtorArgsSeqs : Construct(a)
    \/ \E obs \in SeqLists, nburn \in 0 .. MaxBurn : FitCall(obs, nburn, 1, FALSE, "None")
    \/ BurnIter
    \/ CollectIter
    \/ ThinIter
    \/ UpdateHidden
    \/ UpdateEmission
    \/ UpdateTransition
    \/ Snapshot
    \/ CallBack
    \/ Store

SpecSeqs == Init /\ [][NextSeqs]_vars

\* transition_matrix_prior=None: prior_C is all zeros
ZeroCounts == args.transition_matrix_prior = PNone /\ self.prior_C = Zeros

Reversed(p) == <<p[2], p[1]>>

\* the transitions that do not occur in the hidden paths model m holds
Absent(m) == Pairs \ count_matrix(m.hidden_state_trajectories.paths)

\* the transitions the sweep that drew m's paths lost: absent from the paths,
\* under reversible in both directions
LostIn(m, s) == {p \in Absent(m) : s.reversible => Reversed(p) \in Absent(m)}

MaxYield == MaxTraj * MaxT + 1

\* the blocks yielded so far, the first MaxYield of them
Yielded(g, b) == IF Len(g.out) < MaxYield THEN Append(g.out, b) ELSE g.out

GenRaise(g, err) == [g EXCEPT !.pc = "raised", !.error = err]

\* lines 71-87: the first next() runs the checks and wraps the inputs
SplitCall(a) ==
    /\ gen.pc = "start"
    /\ UNCHANGED <<bvars, tvars>>
    /\ gen' = IF ArgCheck(a) # ""
                 THEN GenRaise([gen EXCEPT !.args = a], ArgCheck(a))
                 ELSE [gen EXCEPT !.pc = "for", !.args = a, !.inputs = Wrapped(a.inputs)]

\* lines 89-101, 113: the next trajectory, its two shifted views and its index
ForNext ==
    /\ gen.pc = "for"
    /\ UNCHANGED <<bvars, tvars>>
    /\ IF gen.n = Len(gen.inputs)
        THEN gen' = [gen EXCEPT !.pc = "done"]
        ELSE LET a == gen.args
                 cur == gen.inputs[gen.n + 1]
                 data == Unlagged(cur.items, a.lagtime, a.stride)
                 data_lagged == Lagged(cur.items, a.lagtime, a.stride)
             IN IF ~cur.finite
                   THEN gen' = GenRaise(gen, "ValueError")
                   ELSE \E ix \in (IF a.shuffle THEN Shuffled(Arange(Len(data)))
                                               ELSE {Arange(Len(data))}) :
                          LET g == [gen EXCEPT !.n = @ + 1, !.data = data,
                                               !.data_lagged = data_lagged, !.ix = ix]
                          IN IF a.n_splits.given
                                THEN IF ~(a.n_splits.v >= 1)
                                        THEN gen' = GenRaise(g, "AssertionError")
                                        ELSE gen' = [g EXCEPT !.pc = "split",
                                                        !.splits = array_split(ix, a.n_splits.v)]
                                ELSE gen' = [g EXCEPT !.pc = "while", !.t = 0]

\* lines 102-111: the next piece of np.array_split, up to the first empty one
SplitStep ==
    /\ gen.pc = "split"
    /\ UNCHANGED <<bvars, tvars>>
    /\ IF gen.splits = << >> \/ ~(Len(Head(gen.splits)) > 0)
        THEN gen' = [gen EXCEPT !.pc = "for"]
        ELSE LET ix_split == Head(gen.splits)
             IN gen' = [gen EXCEPT
                          !.splits = Tail(@),
                          !.tick = ~@,
                          !.out = Yielded(gen, Block(Take(gen.data, ix_split),
                                                     Take(gen.data_lagged, ix_split),
                                                     gen.args.lagtime))]

\* lines 114-123: one round of the chunk loop
WhileStep ==
    /\ gen.pc = "while"
    /\ UNCHANGED <<bvars, tvars>>
    /\ IF ~(gen.t < Len(gen.data)) \/ gen.t = Len(gen.data_lagged)
        THEN gen' = [gen EXCEPT !.pc = "for"]
        ELSE LET c == gen.args.chunksize
                 x == Take(gen.data, PySlice(gen.ix, gen.t, Min(gen.t + c, Len(gen.data))))
                 x_lagged == Take(gen.data_lagged,
                                  PySlice(gen.ix, gen.t, Min(gen.t + c, Len(gen.data_lagged))))
             IN gen' = [gen EXCEPT !.out = Yielded(gen, Block(x, x_lagged, gen.args.lagtime)),
                                   !.tick = ~@,
                                   !.t = @ + c]

\* the inputs: one array, or a list or a tuple of arrays (a tuple of equally
\* long ones); at most one array holds a NaN
Lens == UNION {[1 .. k -> 0 .. MaxT] : k \in 0 .. MaxTraj}

InputChoices ==
    {[kind |-> "ndarray", lens |-> <<T>>, nan |-> {}] : T \in 0 .. MaxT}
        \cup {[kind |-> "list", lens |-> l, nan |-> {}] : l \in Lens}
        \cup {[kind |-> "list", lens |-> l, nan |-> {Len(l)}] : l \in Lens \ {<< >>}}
        \cup {[kind |-> "tuple", lens |-> [n \in 1 .. k |-> T], nan |-> {}] :
                 k \in 0 .. MaxTraj, T \in 1 .. MaxT}

SplitArgs ==
    [inputs : InputChoices, lagtime : -1 .. MaxLag, chunksize : -1 .. MaxChunk,
     stride : 1 .. MaxStride, n_splits : {NoSplits} \cup {NSplits(k) : k \in 0 .. MaxSplits},
     shuffle : BOOLEAN]

\* a call with any of the arguments explored
Iterate ==
    /\ gen.pc = "start"
    /\ \E a \in SplitArgs : SplitCall(a)

NextSplit ==
    \/ Iterate
    \/ ForNext
    \/ SplitStep
    \/ WhileStep

SpecSplit == Init /\ [][NextSplit]_vars

\* the consumer's for loop resumes the generator until it is exhausted
SpecSplitFair == SpecSplit /\ WF_vars(ForNext) /\ WF_vars(SplitStep) /\ WF_vars(WhileStep)

\* ------------------------------------------------------------------------
\* Properties of timeshifted_split
\* ------------------------------------------------------------------------
RECURSIVE Concat(_)
Concat(ss) == IF ss = << >> THEN << >> ELSE Head(ss) \o Concat(Tail(ss))

\* chunk mode on finite trajectories, each longer than lagtime
ChunkMode(a) ==
    /\ ~a.n_splits.given
    /\ ~a.shuffle
    /\ a.stride = 1
    /\ a.lagtime > 0
    /\ a.chunksize >= 1
    /\ a.inputs.nan = {}
    /\ \A n \in DOMAIN a.inputs.lens : a.inputs.lens[n] > a.lagtime

\* frames of one and the same input trajectory
WithinOne(items) ==
    \E n \in 1 .. MaxTraj : \A i \in DOMAIN items : items[i][1] = n /\ items[i][2] >= 0

\* C22: in chunk mode (n_splits unset, shuffle off, stride 1, lagtime > 0)
\* the generator yields pairs (X, Y) of equal length between 1 and
\* chunksize, each from a single trajectory; once exhausted,
\* the X blocks concatenated are data[0 : T - lagtime] and the Y blocks
\* data[lagtime : T] of every trajectory, in input order.
C22_ChunkPairs ==
    LET a == gen.args
        lens == a.inputs.lens
    IN (gen.pc # "start" /\ ChunkMode(a)) =>
          /\ \A k \in DOMAIN gen.out :
                /\ gen.out[k].pair
                /\ Len(gen.out[k].x) = Len(gen.out[k].y)
                /\ Len(gen.out[k].x) \in 1 .. a.chunksize
                /\ WithinOne(gen.out[k].x \o gen.out[k].y)
          /\ gen.pc = "done" =>
                /\ Concat([k \in DOMAIN gen.out |-> gen.out[k].x])
                     = Concat([n \in DOMAIN lens |->
                                  SubSeq(Trajectory(n, lens[n]), 1, lens[n] - a.lagtime)])
                /\ Concat([k \in DOMAIN gen.out |-> gen.out[k].y])
                     = Concat([n \in DOMAIN lens |->
                                  SubSeq(Trajectory(n, lens[n]), a.lagtime + 1, lens[n])])

\* the lengths of the hidden paths model m holds
PathLengths(m) ==
    [n \in DOMAIN m.hidden_state_trajectories.paths |-> Len(m.hidden_state_trajectories.paths[n])]

\* C23: while a fit runs its sweeps the scratch buffers have a row for every
\* observation of the longest sequence, and once the hidden paths of a sweep
\* are drawn, and after every sweep, the working model holds one hidden path
\* per observation sequence, in the order of the sequences, each as long as
\* its sequence.
C23_OnePathPerSequence ==
    Running =>
        /\ self.alpha = SeqMax(fr.observations)
        /\ BuffersHold(self, fr.observations)
        /\ (pc \in {"em", "tm"} \/ hist.sweeps >= 1) =>
              /\ Working.hidden_state_trajectories.set
              /\ PathLengths(Working) = fr.observations

\* two sweeps over a short and a long sequence that share the buffers
C23_Witness ==
    /\ Running
    /\ hist.sweeps = 2
    /\ fr.observations = <<1, 2>>
    /\ self.alpha = 2
    /\ PathLengths(Working) = <<1, 2>>

\* prior p is being derived from the initial model a fit call generates
DerivedAtFirstFit(p, p2) ==
    /\ pc = "idle"
    /\ self.initial_model = NoRef
    /\ self'.initial_model # NoRef
    /\ p = NoneVal
    /\ p2.kind = "initial_model"

\* the array a prior was taken from is as it was: the initial model is never
\* written to (line 261 makes prior_n0 the initial model's own array)
PriorsAsTaken ==
    (pc # "start" /\ self.initial_model # NoRef) =>
        /\ self.prior_n0.kind = "initial_model" =>
              self.prior_n0.supp = heap[self.initial_model].initial_distribution
        /\ self.prior_C.kind = "initial_model" =>
              self.prior_C.supp = heap[self.initial_model].transition_matrix

\* C24: after construction prior_n0 and prior_C change only when a fit call
\* on a sampler without initial model derives a prior left None from the
\* model it generates; no sweep of any fit (the zero-forcing of the posterior
\* counts included), no later fit and no failing call changes them, and the
\* initial model they were taken from stays as it was.
C24_PriorsFixed ==
    /\ []PriorsAsTaken
    /\ [][pc # "start" =>
            /\ self'.prior_n0 # self.prior_n0 => DerivedAtFirstFit(self.prior_n0, self'.prior_n0)
            /\ self'.prior_C # self.prior_C => DerivedAtFirstFit(self.prior_C, self'.prior_C)]_vars

\* a sweep of a second fit ran, zero-forcing included, on a sampler whose
\* prior_C came from the model its first fit generated
C24_Witness ==
    /\ hist.nfits = 2
    /\ Running
    /\ hist.sweeps = 1
    /\ ~args.initial_model.given
    /\ self.prior_C.kind = "initial_model"
    /\ self.prior_n0.kind = "initial_model"

\* C25: a fit on a list that holds a sequence without observations raises
\* before the hidden-path sampler is reached and before any sweep runs: it
\* never gets to a step of a sweep and never returns.
C25_EmptySequenceRejected ==
    (pre.called /\ HasEmptySequence(pre.observations) /\ outcome.call = "fit") =>
        /\ pc \notin {"hid", "em", "tm"}
        /\ hist.sweeps = 0
        /\ ~Returned

\* C26: a call that is iterated to exhaustion comes to an end: the generator
\* is exhausted, or has raised, after finitely many blocks.
C26_Terminates == (gen.pc # "start") ~> (gen.pc \in {"done", "raised"})

=============================================================================
